---------------------------- MODULE Spec2Model ----------------------------
(***************************************************************************)
(* timg: target geometry (ImageSource::CalcScaleToFitDisplay), backend     *)
(* probing (ImageSource::Create) and the option parsing / file loop of     *)
(* main().                                                                 *)
(***************************************************************************)
EXTENDS Integers, Sequences, FiniteSets, TLC

(***************************************************************************)
(* Bounds of the model.                                                    *)
(***************************************************************************)
\* native image sizes run over 1..MaxNative (plus ExtraNative)
MaxNative == 4
\* display constraints run over -MaxNegConstraint..MaxConstraint
MaxConstraint == 5
MaxNegConstraint == 1

\* sizes beyond the ranges, where single precision and exact arithmetic part
ExtraNative == {6, 15}
ExtraConstraint == {25}

NativeSizes == (1..MaxNative) \cup ExtraNative
ConstraintSizes == ((0 - MaxNegConstraint)..MaxConstraint) \cup ExtraConstraint

(***************************************************************************)
(* IEEE-754 single precision, as far as CalcScaleToFitDisplay uses it.     *)
(* A float is [sign, m, k] with value sign * m * 2^(-k); m = 0 for zero,   *)
(* otherwise 2^23 <= m < 2^24 (24 significant bits, normalised).  All      *)
(* magnitudes that occur are below 2^23, so k >= 0.                        *)
(***************************************************************************)
RECURSIVE Pow2Rec(_)
Pow2Rec(n) == IF n = 0 THEN 1 ELSE 2 * Pow2Rec(n - 1)

\* the powers of two an int holds
Pow2Table == [n \in 0..30 |-> Pow2Rec(n)]

Pow2(n) == Pow2Table[n]

Abs(x) == IF x < 0 THEN 0 - x ELSE x

Sign(x) == IF x < 0 THEN 0 - 1 ELSE IF x = 0 THEN 0 ELSE 1

MantissaBits == 24

FloatZero == [sign |-> 0, m |-> 0, k |-> 0]

FloatOne == [sign |-> 1, m |-> Pow2(MantissaBits - 1), k |-> MantissaBits - 1]

\* num / den rounded to the nearest integer, ties to even (the IEEE default)
RoundNearestEven(num, den) ==
    LET q == num \div den
        r == num % den
    IN  IF 2 * r > den \/ (2 * r = den /\ q % 2 = 1) THEN q + 1 ELSE q

\* the least k with a * 2^k / q >= 2^23
RECURSIVE DivScale(_, _, _)
DivScale(a, q, k) ==
    IF a * Pow2(k) >= q * Pow2(MantissaBits - 1) THEN k ELSE DivScale(a, q, k + 1)

\* the least s with p / 2^s < 2^24
RECURSIVE MulShift(_, _)
MulShift(p, s) ==
    IF p < Pow2(MantissaBits) * Pow2(s) THEN s ELSE MulShift(p, s + 1)

\* (float)p / q for ints p and q > 0: the correctly rounded quotient
FloatDiv(p, q) ==
    IF p = 0 THEN FloatZero
    ELSE LET a == Abs(p)
             k == DivScale(a, q, 0)
             m == RoundNearestEven(a * Pow2(k), q)
         IN  IF m = Pow2(MantissaBits)
             THEN [sign |-> Sign(p), m |-> Pow2(MantissaBits - 1), k |-> k - 1]
             ELSE [sign |-> Sign(p), m |-> m, k |-> k]

\* f * n for a float f and an int n >= 1 (converted exactly): the correctly
\* rounded product
FloatMulInt(f, n) ==
    IF f.sign = 0 THEN FloatZero
    ELSE LET p == f.m * n
             s == MulShift(p, 0)
             m == RoundNearestEven(p, Pow2(s))
         IN  IF m = Pow2(MantissaBits)
             THEN [sign |-> f.sign, m |-> Pow2(MantissaBits - 1), k |-> f.k - s - 1]
             ELSE [sign |-> f.sign, m |-> m, k |-> f.k - s]

\* f > g
FloatGT(f, g) ==
    IF f.sign # g.sign THEN f.sign > g.sign
    ELSE IF f.sign = 0 THEN FALSE
    ELSE IF f.sign = 1
         THEN f.k < g.k \/ (f.k = g.k /\ f.m > g.m)
         ELSE f.k > g.k \/ (f.k = g.k /\ f.m < g.m)

\* (int) roundf(f): nearest integer, ties away from zero
RoundF(f) ==
    IF f.sign = 0 THEN 0
    ELSE LET d == Pow2(f.k)
             q == f.m \div d
             r == f.m % d
         IN  f.sign * (IF 2 * r >= d THEN q + 1 ELSE q)

(***************************************************************************)
(* ImageSource::CalcScaleToFitDisplay.  options is a record with width,    *)
(* height, upscale, fill_width, fill_height.  The result holds the two     *)
(* out-parameters, the returned bool, and which return statement was       *)
(* taken (shortcut: the early return of lines 39-41).                      *)
(***************************************************************************)
\* the early return also taken by an image exactly as large as the box
TakesShortcutAtEqual(options, width_fraction, height_fraction) ==
    /\ ~options.upscale
    /\ (options.fill_height \/ ~FloatGT(FloatOne, width_fraction))
    /\ (options.fill_width \/ ~FloatGT(FloatOne, height_fraction))

\* lines 36-38: the condition of the early, unscaled return
TakesShortcut(options, width_fraction, height_fraction) ==
    /\ ~options.upscale
    /\ (options.fill_height \/ FloatGT(width_fraction, FloatOne))
    /\ (options.fill_width \/ FloatGT(height_fraction, FloatOne))

\* no clamp
ClampDimensionOff(d) == d

\* lines 77-78: "Don't scale down to nothing..."
ClampDimension(d) == IF d <= 0 THEN 1 ELSE d

\* the larger fraction in every mode
ScaledTargetLarger(img_width, img_height, options, width_fraction, height_fraction) ==
    LET larger_fraction == IF FloatGT(width_fraction, height_fraction)
                           THEN width_fraction ELSE height_fraction
    IN  [w |-> RoundF(FloatMulInt(larger_fraction, img_width)),
         h |-> RoundF(FloatMulInt(larger_fraction, img_height))]

\* lines 44-74: the target before clamping
ScaledTarget(img_width, img_height, options, width_fraction, height_fraction) ==
    IF options.fill_width /\ options.fill_height
    THEN LET larger_fraction == IF FloatGT(width_fraction, height_fraction)
                                THEN width_fraction ELSE height_fraction
         IN  [w |-> RoundF(FloatMulInt(larger_fraction, img_width)),
              h |-> RoundF(FloatMulInt(larger_fraction, img_height))]
    ELSE IF options.fill_height
    THEN [w |-> RoundF(FloatMulInt(height_fraction, img_width)),
          h |-> options.height]
    ELSE IF options.fill_width
    THEN [w |-> options.width,
          h |-> RoundF(FloatMulInt(width_fraction, img_height))]
    ELSE LET smaller_fraction == IF FloatGT(height_fraction, width_fraction)
                                 THEN width_fraction ELSE height_fraction
         IN  [w |-> RoundF(FloatMulInt(smaller_fraction, img_width)),
              h |-> RoundF(FloatMulInt(smaller_fraction, img_height))]

CalcScaleToFitDisplay(img_width, img_height, options) ==
    LET width_fraction == FloatDiv(options.width, img_width)
        height_fraction == FloatDiv(options.height, img_height)
    IN  IF TakesShortcut(options, width_fraction, height_fraction)
        THEN [target_width |-> img_width, target_height |-> img_height,
              result |-> FALSE, shortcut |-> TRUE]
        ELSE LET t == ScaledTarget(img_width, img_height, options,
                                   width_fraction, height_fraction)
                 tw == ClampDimension(t.w)
                 th == ClampDimension(t.h)
             IN  [target_width |-> tw, target_height |-> th,
                  result |-> (tw # img_width \/ th # img_height),
                  shortcut |-> FALSE]

(***************************************************************************)
(* ImageSource::Create.  The decode backends (ImageLoader, VideoLoader)    *)
(* are collaborators: backend says, for the file at hand, whether each     *)
(* would load and what native size it reports.  with_video is the build's  *)
(* WITH_TIMG_VIDEO.                                                        *)
(***************************************************************************)
\* ImageLoader/VideoLoader::LoadAndScale: open the file and, once its native
\* size is known, fix the target size through CalcScaleToFitDisplay
LoadAndScale(loads, native, options) ==
    IF loads
    THEN [ok |-> TRUE,
          geometry |-> CalcScaleToFitDisplay(native[1], native[2], options)]
    ELSE [ok |-> FALSE]

\* lines 88-93: is the image backend constructed and probed
ProbesImage(attempt_image_loading) == attempt_image_loading

\* lines 95-102: is the video backend constructed and probed, given that the
\* image probing did not return a source
ProbesVideo(attempt_video_loading, video_compiled) ==
    video_compiled /\ attempt_video_loading

NoGeometry == [target_width |-> 0, target_height |-> 0,
               result |-> FALSE, shortcut |-> FALSE]

\* video probed first, image as the fallback
CreateVideoFirst(options, attempt_image_loading, attempt_video_loading, video_compiled, backend) ==
    LET img == LoadAndScale(backend.image_loads, backend.native, options)
        vid == LoadAndScale(backend.video_loads, backend.native, options)
    IN  IF ProbesVideo(attempt_video_loading, video_compiled) /\ vid.ok
        THEN [kind |-> "video", probes |-> <<"video">>,
              geometry |-> vid.geometry]
        ELSE LET p1 == IF ProbesVideo(attempt_video_loading, video_compiled)
                       THEN <<"video">> ELSE <<>>
             IN  IF ProbesImage(attempt_image_loading)
                 THEN IF img.ok
                      THEN [kind |-> "image", probes |-> Append(p1, "image"),
                            geometry |-> img.geometry]
                      ELSE [kind |-> "none", probes |-> Append(p1, "image"),
                            geometry |-> NoGeometry]
                 ELSE [kind |-> "none", probes |-> p1,
                       geometry |-> NoGeometry]

\* The result: kind is "image", "video" or "none" (nullptr); probes lists the
\* backends constructed and probed, in order.
Create(options, attempt_image_loading, attempt_video_loading, video_compiled, backend) ==
    LET img == LoadAndScale(backend.image_loads, backend.native, options)
        vid == LoadAndScale(backend.video_loads, backend.native, options)
    IN  IF ProbesImage(attempt_image_loading) /\ img.ok
        THEN [kind |-> "image", probes |-> <<"image">>,
              geometry |-> img.geometry]
        ELSE LET p1 == IF ProbesImage(attempt_image_loading)
                       THEN <<"image">> ELSE <<>>
             IN  IF ProbesVideo(attempt_video_loading, video_compiled)
                 THEN IF vid.ok
                      THEN [kind |-> "video", probes |-> Append(p1, "video"),
                            geometry |-> vid.geometry]
                      ELSE [kind |-> "none", probes |-> Append(p1, "video"),
                            geometry |-> NoGeometry]
                 ELSE [kind |-> "none", probes |-> p1,
                       geometry |-> NoGeometry]

(***************************************************************************)
(* sscanf("%d<sep>%d") and atoi on an option argument, a sequence of       *)
(* characters.                                                             *)
(***************************************************************************)
Digits == <<"0", "1", "2", "3", "4", "5", "6", "7", "8", "9">>

IsDigit(c) == \E d \in 1..10 : Digits[d] = c

DigitVal(c) == (CHOOSE d \in 1..10 : Digits[d] = c) - 1

\* the digits of s from position i on: [value, next]
RECURSIVE ScanDigits(_, _, _)
ScanDigits(s, i, acc) ==
    IF i <= Len(s) /\ IsDigit(s[i])
    THEN ScanDigits(s, i + 1, 10 * acc + DigitVal(s[i]))
    ELSE [value |-> acc, next |-> i]

\* %d at position i: an optional sign, then at least one digit
ScanInt(s, i) ==
    LET signed == i <= Len(s) /\ s[i] \in {"-", "+"}
        j == IF signed THEN i + 1 ELSE i
        d == ScanDigits(s, j, 0)
    IN  IF d.next = j
        THEN [ok |-> FALSE, value |-> 0, next |-> j]
        ELSE [ok |-> TRUE,
              value |-> IF signed /\ s[i] = "-" THEN 0 - d.value ELSE d.value,
              next |-> d.next]

\* sscanf(s, "%d<sep>%d", &a, &b): n is the return value (-1 is EOF), a and b
\* are left as they were where nothing was converted
Sscanf2(s, sep, a0, b0) ==
    IF Len(s) = 0 THEN [n |-> 0 - 1, a |-> a0, b |-> b0]
    ELSE LET first == ScanInt(s, 1)
         IN  IF ~first.ok THEN [n |-> 0, a |-> a0, b |-> b0]
             ELSE IF first.next > Len(s) \/ s[first.next] # sep
             THEN [n |-> 1, a |-> first.value, b |-> b0]
             ELSE LET second == ScanInt(s, first.next + 1)
                  IN  IF ~second.ok
                      THEN [n |-> 1, a |-> first.value, b |-> b0]
                      ELSE [n |-> 2, a |-> first.value, b |-> second.value]

Atoi(s) == ScanInt(s, 1).value

\* C's integer division truncates toward zero
CDiv(a, b) == Sign(a) * Sign(b) * (Abs(a) \div Abs(b))

(***************************************************************************)
(* Constants of main().                                                    *)
(***************************************************************************)
kSuccess == 0
kImageReadError == 1
kParameterError == 2
kNotATerminal == 3

\* timg::kNotInitialized, the "not set" value of max_frames and loops: a
\* most negative int, which no option argument of the model yields
kNotInitialized == -2147483647

(***************************************************************************)
(* Inputs of the model.                                                    *)
(***************************************************************************)
\* options parsed per run, input files per run
MaxOpts == 2
MaxFiles == 2

\* what DetermineTermSize can return: no tty; a tty reporting 0x0; 4 columns
\* and 4 rows
TermSizes == {[size_valid |-> FALSE, width |-> 0 - 1, height |-> 0 - 1],
              [size_valid |-> TRUE, width |-> 0, height |-> 0 - 2],
              [size_valid |-> TRUE, width |-> 4, height |-> 6]}

\* arguments of -g, --grid, --loops, --frames and --delta-move
GeometryArgs == {<<"4", "x", "2">>, <<"1", "x", "1">>, <<"7">>}
GridArgs == {<<"2">>, <<"2", "x", "1">>, <<"0">>, <<"x">>}
LoopsArgs == {<<"-", "1">>}
FramesArgs == {<<"1">>, <<"2">>}
DeltaArgs == {<<"0", ":", "1">>, <<"1", ":", "1">>, <<":">>}

\* native sizes the decode backends report
FileNativeSizes == {<<1, 1>>, <<4, 7>>}

\* what an integer division by zero may leave behind where it does not trap
UBValues == {0 - 1, 0, 1}

Backends == [image_loads : BOOLEAN, video_loads : BOOLEAN,
             native : FileNativeSizes]

(***************************************************************************)
(* State.                                                                  *)
(***************************************************************************)
VARIABLES
    calc_in,            \* arguments of a direct CalcScaleToFitDisplay call
    calc_out,           \* what the call returned, NoCall before it
    create_in,          \* arguments of a direct ImageSource::Create call
    create_out,         \* what the call returned, NoCall before it
    pc,                 \* where main() is
    with_video,         \* WITH_TIMG_VIDEO of the build
    term,               \* DetermineTermSize()
    display_opts,
    max_frames,
    loops,
    grid_rows,
    grid_cols,
    fit_width,
    do_image_loading,
    do_video_loading,
    nopts,              \* options of argv that getopt_long has yet to return
    nfiles,             \* argc - optind
    imgarg,             \* index of the current file, from 1
    interrupt_received,
    exit_code,
    exit_status,        \* what main() returned, read at pc "returned"/"exit"
    source,             \* what ImageSource::Create returned for this file
    createLog,          \* history: the Create calls, [file, loaded]
    sendLog,            \* history: the SendFrames calls
    configured_loops,   \* history: loops as the options left it
    observed            \* history: the loop condition has seen the flag set

calcvars == <<calc_in, calc_out, create_in, create_out>>
envvars == <<with_video, term>>
optvars == <<display_opts, max_frames, loops, grid_rows, grid_cols, fit_width,
             do_image_loading, do_video_loading, configured_loops>>
loopvars == <<imgarg, interrupt_received, exit_code, source, createLog,
              sendLog, observed>>
vars == <<calc_in, calc_out, create_in, create_out, pc, with_video, term, display_opts, max_frames,
          loops, grid_rows, grid_cols, fit_width, do_image_loading,
          do_video_loading, nopts, nfiles, imgarg, interrupt_received,
          exit_code, exit_status, source, createLog, sendLog,
          configured_loops, observed>>

NoCall == [called |-> FALSE]

NoSource == [kind |-> "none", geometry |-> NoGeometry]

CalcInputs ==
    [img_width : NativeSizes, img_height : NativeSizes,
     width : ConstraintSizes, height : ConstraintSizes,
     upscale : BOOLEAN, fill_width : BOOLEAN, fill_height : BOOLEAN]

\* main() lines 135-151, and the defaults of DisplayOptions as the usage text
\* (lines 75-110) has them: no upscaling, no filename, no scrolling, and a
\* delta-move of 1:0
InitMain ==
    /\ pc = "getopt"
    /\ with_video \in BOOLEAN
    /\ term \in TermSizes
    /\ display_opts = [width |-> term.width, height |-> term.height,
                       upscale |-> FALSE, show_filename |-> FALSE,
                       fill_width |-> FALSE, fill_height |-> FALSE,
                       scroll_animation |-> FALSE,
                       scroll_dx |-> 1, scroll_dy |-> 0]
    /\ max_frames = kNotInitialized
    /\ loops = kNotInitialized
    /\ configured_loops = kNotInitialized
    /\ grid_rows = 1
    /\ grid_cols = 1
    /\ fit_width = FALSE
    /\ do_image_loading = TRUE
    /\ do_video_loading = TRUE
    /\ nopts \in 0..MaxOpts
    /\ nfiles \in 0..MaxFiles
    /\ imgarg = 1
    /\ interrupt_received = 0
    /\ exit_code = 0
    /\ exit_status = 0
    /\ source = NoSource
    /\ createLog = <<>>
    /\ sendLog = <<>>
    /\ observed = FALSE

Init ==
    /\ InitMain
    /\ calc_in = NoCall
    /\ calc_out = NoCall
    /\ create_in = NoCall
    /\ create_out = NoCall

(***************************************************************************)
(* main(): the getopt_long loop, lines 182-312.  One action per case of    *)
(* the switch that the geometry, the limits or the probing depend on.      *)
(***************************************************************************)
MoreOptions == pc = "getopt" /\ nopts > 0

\* return usage(argv[0], code, ...), and the plain "return 0" of -v
Return(code) ==
    /\ pc' = "returned"
    /\ exit_status' = code

\* case 'g', lines 186-193
OptGeometry ==
    /\ MoreOptions
    /\ \E optarg \in GeometryArgs :
         LET r == Sscanf2(optarg, "x", display_opts.width, display_opts.height)
         IN  /\ display_opts' = [display_opts EXCEPT !.width = r.a,
                                                     !.height = r.b]
             /\ IF r.n < 2
                THEN Return(kParameterError)
                ELSE UNCHANGED <<pc, exit_status>>
    /\ nopts' = nopts - 1
    /\ UNCHANGED <<max_frames, loops, grid_rows, grid_cols, fit_width,
                   do_image_loading, do_video_loading, configured_loops>>
    /\ UNCHANGED <<calcvars, envvars, loopvars, nfiles>>

\* case 'c', lines 201-203
OptLoops ==
    /\ MoreOptions
    /\ \E optarg \in LoopsArgs :
         /\ loops' = Atoi(optarg)
         /\ configured_loops' = Atoi(optarg)
    /\ nopts' = nopts - 1
    /\ UNCHANGED <<display_opts, max_frames, grid_rows, grid_cols, fit_width,
                   do_image_loading, do_video_loading>>
    /\ UNCHANGED <<calcvars, envvars, loopvars, nfiles, pc, exit_status>>

\* case 'f', lines 204-206
OptFrames ==
    /\ MoreOptions
    /\ \E optarg \in FramesArgs : max_frames' = Atoi(optarg)
    /\ nopts' = nopts - 1
    /\ UNCHANGED <<display_opts, loops, grid_rows, grid_cols, fit_width,
                   do_image_loading, do_video_loading, configured_loops>>
    /\ UNCHANGED <<calcvars, envvars, loopvars, nfiles, pc, exit_status>>

\* case 's', lines 216-221
OptScroll ==
    /\ MoreOptions
    /\ display_opts' = [display_opts EXCEPT !.scroll_animation = TRUE]
    /\ nopts' = nopts - 1
    /\ UNCHANGED <<max_frames, loops, grid_rows, grid_cols, fit_width,
                   do_image_loading, do_video_loading, configured_loops>>
    /\ UNCHANGED <<calcvars, envvars, loopvars, nfiles, pc, exit_status>>

\* case 'V', lines 222-229
OptVideo ==
    /\ MoreOptions
    /\ IF with_video
       THEN do_image_loading' = FALSE /\ do_video_loading' = TRUE
       ELSE UNCHANGED <<do_image_loading, do_video_loading>>
    /\ nopts' = nopts - 1
    /\ UNCHANGED <<display_opts, max_frames, loops, grid_rows, grid_cols,
                   fit_width, configured_loops>>
    /\ UNCHANGED <<calcvars, envvars, loopvars, nfiles, pc, exit_status>>

\* case 'I', lines 230-235
OptImage ==
    /\ MoreOptions
    /\ do_image_loading' = TRUE
    /\ do_video_loading' = IF with_video THEN FALSE ELSE do_video_loading
    /\ nopts' = nopts - 1
    /\ UNCHANGED <<display_opts, max_frames, loops, grid_rows, grid_cols,
                   fit_width, configured_loops>>
    /\ UNCHANGED <<calcvars, envvars, loopvars, nfiles, pc, exit_status>>

\* case OPT_GRID, lines 249-262
OptGrid ==
    /\ MoreOptions
    /\ \E optarg \in GridArgs :
         LET r == Sscanf2(optarg, "x", grid_cols, grid_rows)
         IN  /\ grid_cols' = r.a
             /\ grid_rows' = IF r.n = 1 THEN r.a ELSE r.b
             /\ IF r.n = 0
                THEN Return(kParameterError)
                ELSE UNCHANGED <<pc, exit_status>>
    /\ nopts' = nopts - 1
    /\ UNCHANGED <<display_opts, max_frames, loops, fit_width,
                   do_image_loading, do_video_loading, configured_loops>>
    /\ UNCHANGED <<calcvars, envvars, loopvars, nfiles>>

\* case 'd', lines 263-271
OptDeltaMove ==
    /\ MoreOptions
    /\ \E optarg \in DeltaArgs :
         LET r == Sscanf2(optarg, ":", display_opts.scroll_dx,
                          display_opts.scroll_dy)
         IN  /\ display_opts' = [display_opts EXCEPT !.scroll_dx = r.a,
                                                     !.scroll_dy = r.b]
             /\ IF r.n < 1
                THEN Return(kParameterError)
                ELSE UNCHANGED <<pc, exit_status>>
    /\ nopts' = nopts - 1
    /\ UNCHANGED <<max_frames, loops, grid_rows, grid_cols, fit_width,
                   do_image_loading, do_video_loading, configured_loops>>
    /\ UNCHANGED <<calcvars, envvars, loopvars, nfiles>>

\* case 'U', lines 275-277
OptUpscale ==
    /\ MoreOptions
    /\ display_opts' = [display_opts EXCEPT !.upscale = ~display_opts.upscale]
    /\ nopts' = nopts - 1
    /\ UNCHANGED <<max_frames, loops, grid_rows, grid_cols, fit_width,
                   do_image_loading, do_video_loading, configured_loops>>
    /\ UNCHANGED <<calcvars, envvars, loopvars, nfiles, pc, exit_status>>

\* case 'F', lines 284-286
OptShowFilename ==
    /\ MoreOptions
    /\ display_opts' = [display_opts EXCEPT
                          !.show_filename = ~display_opts.show_filename]
    /\ nopts' = nopts - 1
    /\ UNCHANGED <<max_frames, loops, grid_rows, grid_cols, fit_width,
                   do_image_loading, do_video_loading, configured_loops>>
    /\ UNCHANGED <<calcvars, envvars, loopvars, nfiles, pc, exit_status>>

\* case 'W', lines 290-292
OptFitWidth ==
    /\ MoreOptions
    /\ fit_width' = TRUE
    /\ nopts' = nopts - 1
    /\ UNCHANGED <<display_opts, max_frames, loops, grid_rows, grid_cols,
                   do_image_loading, do_video_loading, configured_loops>>
    /\ UNCHANGED <<calcvars, envvars, loopvars, nfiles, pc, exit_status>>

\* cases 'v', 'h' and default, lines 293-310: -v and -h return success, an
\* unknown option a parameter error
OptHelpOrUnknown ==
    /\ MoreOptions
    /\ \E code \in {kSuccess, kParameterError} : Return(code)
    /\ nopts' = nopts - 1
    /\ UNCHANGED <<calcvars, envvars, optvars, loopvars, nfiles>>

\* getopt_long returns -1; what is left of argv are the files
OptionsDone ==
    /\ pc = "getopt"
    /\ nopts = 0
    /\ pc' = "size_check"
    /\ UNCHANGED <<calcvars, envvars, optvars, loopvars, nopts, nfiles,
                   exit_status>>

(***************************************************************************)
(* main() after the options, lines 314-369.                                *)
(***************************************************************************)
\* line 314: is the size refused
SizeRefused(width, height) == width < 1 \/ height < 1

\* lines 314-323
CheckSize ==
    /\ pc = "size_check"
    /\ IF SizeRefused(display_opts.width, display_opts.height)
       THEN Return(kNotATerminal)
       ELSE pc' = "files_check" /\ UNCHANGED exit_status
    /\ UNCHANGED <<calcvars, envvars, optvars, loopvars, nopts, nfiles>>

\* lines 325-329
CheckFiles ==
    /\ pc = "files_check"
    /\ IF nfiles = 0
       THEN Return(kImageReadError)
       ELSE pc' = "prepare" /\ UNCHANGED exit_status
    /\ UNCHANGED <<calcvars, envvars, optvars, loopvars, nopts, nfiles>>

\* one loop only where --loops was not given
ForceLoopsIfUnset(frames, configured) ==
    IF frames = 1 /\ configured = kNotInitialized THEN 1 ELSE configured

\* lines 346-349: "Showing exactly one frame implies animation behaves as
\* static image"
ForceLoops(frames, configured) == IF frames = 1 THEN 1 ELSE configured

\* lines 351-353: the rows left once the filename lines are taken off
HeightForImages(height, show_filename, rows) ==
    IF show_filename THEN height - 2 * rows ELSE height

\* lines 331-353
Prepare ==
    /\ pc = "prepare"
    /\ LET scroll == IF display_opts.scroll_dx = 0 /\ display_opts.scroll_dy = 0
                     THEN FALSE ELSE display_opts.scroll_animation
       IN  display_opts' =
             [display_opts EXCEPT
                !.scroll_animation = scroll,
                !.fill_width = fit_width \/ (scroll /\ display_opts.scroll_dy # 0),
                !.fill_height = scroll /\ display_opts.scroll_dx # 0,
                !.height = HeightForImages(display_opts.height,
                                           display_opts.show_filename,
                                           grid_rows)]
    /\ loops' = ForceLoops(max_frames, loops)
    /\ pc' = "partition"
    /\ UNCHANGED <<max_frames, grid_rows, grid_cols, fit_width,
                   do_image_loading, do_video_loading, configured_loops>>
    /\ UNCHANGED <<calcvars, envvars, loopvars, nopts, nfiles, exit_status>>

\* lines 364-365: the size of one grid cell
CellSize(size, count) == CDiv(size, count)

\* lines 360-369.  A division by zero is undefined: the process traps, or
\* goes on with some value.
Partition ==
    /\ pc = "partition"
    /\ \/ /\ grid_cols # 0 /\ grid_rows # 0
          /\ display_opts' =
               [display_opts EXCEPT
                  !.width = CellSize(display_opts.width, grid_cols),
                  !.height = CellSize(display_opts.height, grid_rows)]
          /\ pc' = "loop"
       \/ /\ grid_cols = 0 \/ grid_rows = 0
          /\ pc' = "crashed"
          /\ UNCHANGED display_opts
       \/ /\ grid_cols = 0 \/ grid_rows = 0
          /\ \E w \in UBValues, h \in UBValues :
               display_opts' =
                 [display_opts EXCEPT
                    !.width = IF grid_cols = 0 THEN w
                              ELSE CellSize(display_opts.width, grid_cols),
                    !.height = IF grid_rows = 0 THEN h
                               ELSE CellSize(display_opts.height, grid_rows)]
          /\ pc' = "loop"
    /\ exit_code' = 0
    /\ UNCHANGED <<max_frames, loops, grid_rows, grid_cols, fit_width,
                   do_image_loading, do_video_loading, configured_loops>>
    /\ UNCHANGED <<calcvars, envvars, nopts, nfiles, exit_status, imgarg,
                   interrupt_received, source, createLog, sendLog, observed>>

(***************************************************************************)
(* main(): the file loop, lines 371-388, and the signal handler.           *)
(***************************************************************************)
\* the loop condition without the flag
LoopConditionNoFlag(arg, files, flag) == arg <= files

\* line 371: imgarg < argc && !interrupt_received
LoopCondition(arg, files, flag) == arg <= files /\ flag = 0

LoopCheck ==
    /\ pc = "loop"
    /\ pc' = IF LoopCondition(imgarg, nfiles, interrupt_received)
             THEN "create" ELSE "finish"
    /\ observed' = (observed \/ (imgarg <= nfiles /\ interrupt_received # 0))
    /\ UNCHANGED <<imgarg, interrupt_received, exit_code, source, createLog,
                   sendLog>>
    /\ UNCHANGED <<calcvars, envvars, optvars, nopts, nfiles, exit_status>>

\* lines 372-375
CallCreate ==
    /\ pc = "create"
    /\ \E backend \in Backends :
         LET s == Create(display_opts, do_image_loading, do_video_loading,
                         with_video, backend)
         IN  /\ source' = [kind |-> s.kind, geometry |-> s.geometry]
             /\ createLog' = Append(createLog, [file |-> imgarg,
                                                loaded |-> s.kind # "none"])
    /\ pc' = "created"
    /\ UNCHANGED <<imgarg, interrupt_received, exit_code, sendLog, observed>>
    /\ UNCHANGED <<calcvars, envvars, optvars, nopts, nfiles, exit_status>>

\* a break in place of the continue
AfterFailedLoadBreak == "finish"

\* line 376: where a file that did not load leaves the loop body
AfterFailedLoad == "loop"

\* line 376: if (!source) continue;
TestSource ==
    /\ pc = "created"
    /\ IF source.kind = "none"
       THEN /\ pc' = AfterFailedLoad
            /\ imgarg' = imgarg + 1
       ELSE /\ pc' = "send"
            /\ UNCHANGED imgarg
    /\ UNCHANGED <<interrupt_received, exit_code, source, createLog, sendLog,
                   observed>>
    /\ UNCHANGED <<calcvars, envvars, optvars, nopts, nfiles, exit_status>>

\* lines 377-380: SendFrames plays the source (it polls the flag, it never
\* writes it); the source is destroyed at the end of the loop body
CallSendFrames ==
    /\ pc = "send"
    /\ sendLog' = Append(sendLog, [file |-> imgarg, max_frames |-> max_frames,
                                   loops |-> loops])
    /\ source' = NoSource
    /\ imgarg' = imgarg + 1
    /\ pc' = "loop"
    /\ UNCHANGED <<interrupt_received, exit_code, createLog, observed>>
    /\ UNCHANGED <<calcvars, envvars, optvars, nopts, nfiles, exit_status>>

\* lines 382-388
Finish ==
    /\ pc = "finish"
    /\ pc' = "exit"
    /\ exit_status' = exit_code
    /\ source' = NoSource
    /\ UNCHANGED <<imgarg, interrupt_received, exit_code, createLog, sendLog,
                   observed>>
    /\ UNCHANGED <<calcvars, envvars, optvars, nopts, nfiles>>

\* lines 61-64, installed by lines 367-368: SIGINT or SIGTERM arrives
InterruptHandler ==
    /\ pc \in {"loop", "create", "created", "send", "finish"}
    /\ interrupt_received' = 1
    /\ UNCHANGED <<imgarg, exit_code, source, createLog, sendLog, observed>>
    /\ UNCHANGED <<calcvars, envvars, optvars, nopts, nfiles, exit_status, pc>>

Next ==
    \/ OptGeometry
    \/ OptLoops
    \/ OptFrames
    \/ OptScroll
    \/ OptVideo
    \/ OptImage
    \/ OptGrid
    \/ OptDeltaMove
    \/ OptUpscale
    \/ OptShowFilename
    \/ OptFitWidth
    \/ OptHelpOrUnknown
    \/ OptionsDone
    \/ CheckSize
    \/ CheckFiles
    \/ Prepare
    \/ Partition
    \/ LoopCheck
    \/ CallCreate
    \/ TestSource
    \/ CallSendFrames
    \/ Finish
    \/ InterruptHandler

Spec == Init /\ [][Next]_vars

(***************************************************************************)
(* CalcScaleToFitDisplay on its own: every native size, constraint and     *)
(* flag combination of the bounds, main() at rest.                         *)
(***************************************************************************)
InitCalc ==
    /\ InitMain
    /\ with_video
    /\ term.size_valid /\ term.width > 0
    /\ nopts = 0 /\ nfiles = 0
    /\ calc_in \in CalcInputs
    /\ calc_out = NoCall
    /\ create_in = NoCall
    /\ create_out = NoCall

CallCalc ==
    /\ calc_out = NoCall
    /\ calc_out' = [called |-> TRUE,
                    r |-> CalcScaleToFitDisplay(calc_in.img_width,
                                                calc_in.img_height, calc_in)]
    /\ UNCHANGED <<calc_in, create_in, create_out, pc, envvars, optvars,
                   loopvars, nopts, nfiles, exit_status>>

NextCalc == CallCalc

SpecCalc == InitCalc /\ [][NextCalc]_vars

(***************************************************************************)
(* ImageSource::Create on its own: every combination of the two attempt    *)
(* flags, the build, and what the backends would answer.                   *)
(***************************************************************************)
CreateOptions ==
    {[width |-> 4, height |-> 6, upscale |-> up, fill_width |-> fw,
      fill_height |-> FALSE] : up \in BOOLEAN, fw \in BOOLEAN}

CreateInputs ==
    [options : CreateOptions, attempt_image_loading : BOOLEAN,
     attempt_video_loading : BOOLEAN, backend : Backends]

InitCreate ==
    /\ InitMain
    /\ term.size_valid /\ term.width > 0
    /\ nopts = 0 /\ nfiles = 0
    /\ calc_in = NoCall
    /\ calc_out = NoCall
    /\ create_in \in CreateInputs
    /\ create_out = NoCall

CallCreateDirect ==
    /\ create_out = NoCall
    /\ create_out' = [called |-> TRUE,
                      r |-> Create(create_in.options,
                                   create_in.attempt_image_loading,
                                   create_in.attempt_video_loading,
                                   with_video, create_in.backend)]
    /\ UNCHANGED <<calc_in, calc_out, create_in, pc, envvars, optvars,
                   loopvars, nopts, nfiles, exit_status>>

NextCreate == CallCreateDirect

SpecCreate == InitCreate /\ [][NextCreate]_vars

(***************************************************************************)
(* Properties.                                                             *)
(***************************************************************************)
Max(a, b) == IF a > b THEN a ELSE b

Contains(seq, x) == \E i \in DOMAIN seq : seq[i] = x

\* C1 (SpecCalc): for every native size >= 1, every constraint (zero and
\* negative ones too) and every combination of fill_width, fill_height and
\* upscale, CalcScaleToFitDisplay writes target_width >= 1 and
\* target_height >= 1.
C1_TargetAtLeastOne ==
    calc_out.called =>
        /\ calc_out.r.target_width >= 1
        /\ calc_out.r.target_height >= 1

\* a call with a constraint width <= 0 went through the scaling and the
\* clamp forced the width to 1
C1_Witness ==
    /\ calc_out.called
    /\ calc_in.width <= 0
    /\ ~calc_out.r.shortcut
    /\ calc_out.r.target_width = 1
    /\ calc_in.img_width > 1

\* C2, as claimed (Spec): for every source the file loop creates, the target
\* size fits the cell passed as constraints: target_width <= cell width and
\* target_height <= cell height, for every native size and every option
\* combination.
\* (Stated for grids and cells of at least 1x1, where the cell is a proper
\* rectangle.)
C2_FitsCell ==
    (/\ source.kind # "none"
     /\ grid_cols >= 1 /\ grid_rows >= 1
     /\ display_opts.width >= 1 /\ display_opts.height >= 1) =>
        /\ source.geometry.target_width <= display_opts.width
        /\ source.geometry.target_height <= display_opts.height

\* C2, amended (Spec): for every source the file loop creates with neither
\* fill_width nor fill_height in force, target_width <= max(1, cell width)
\* and target_height <= max(1, cell height), the cell being the constraints
\* passed to Create.
C2_FitsCellWithoutFill ==
    (source.kind # "none" /\ ~display_opts.fill_width
                          /\ ~display_opts.fill_height) =>
        /\ source.geometry.target_width <= Max(1, display_opts.width)
        /\ source.geometry.target_height <= Max(1, display_opts.height)

\* a source was created without fill flags and was scaled down to the height
\* of its cell
C2_Witness ==
    /\ source.kind # "none"
    /\ ~display_opts.fill_width /\ ~display_opts.fill_height
    /\ source.geometry.result
    /\ ~source.geometry.shortcut
    /\ display_opts.height >= 1
    /\ source.geometry.target_height = display_opts.height

\* C3, as claimed (Spec): when main returns from the file loop, its exit
\* status is the success code if and only if Create succeeded for every file
\* that was attempted.
C3_ExitStatusReflectsFailures ==
    pc = "exit" =>
        (exit_status = kSuccess <=>
            \A i \in DOMAIN createLog : createLog[i].loaded)

\* C4 (Spec): a failed load is not fatal.  Create is called for the files in
\* argument order, once each; SendFrames is only ever called for a file whose
\* Create returned a source; while the loop runs the next Create is for the
\* file after the last one tried; and the loop is left without the flag seen
\* set only after Create was called for every file, so with the flag never
\* set every file is tried whatever subset fails.
C4_FailedLoadNotFatal ==
    /\ \A i \in DOMAIN createLog : createLog[i].file = i
    /\ \A j \in DOMAIN sendLog :
         /\ sendLog[j].file \in DOMAIN createLog
         /\ createLog[sendLog[j].file].loaded
    /\ pc \in {"loop", "create"} => imgarg = Len(createLog) + 1
    /\ (pc \in {"finish", "exit"} /\ ~observed) => Len(createLog) = nfiles
    /\ (pc = "exit" /\ interrupt_received = 0) => Len(createLog) = nfiles

\* the run ended, never interrupted, after the first file failed to load and
\* the second one loaded and was played
C4_Witness ==
    /\ pc = "exit"
    /\ interrupt_received = 0
    /\ Len(createLog) = 2
    /\ ~createLog[1].loaded
    /\ createLog[2].loaded
    /\ Len(sendLog) = 1
    /\ sendLog[1].file = 2

\* C5 (SpecCreate): Create probes image then video.  The image backend is
\* probed exactly if attempt_image_loading; if it loads, the image source is
\* returned and the video backend is not probed; the video backend is probed
\* exactly if the image probing failed or was disabled, attempt_video_loading
\* is set and video is compiled in; no source is returned if and only if
\* every enabled backend failed to load.
C5_ProbeOrder ==
    create_out.called =>
        LET in == create_in
            r == create_out.r
            imageOk == in.attempt_image_loading /\ in.backend.image_loads
            videoOn == in.attempt_video_loading /\ with_video
        IN  /\ r.probes \in {<<>>, <<"image">>, <<"video">>,
                             <<"image", "video">>}
            /\ Contains(r.probes, "image") <=> in.attempt_image_loading
            /\ imageOk => (r.kind = "image" /\ r.probes = <<"image">>)
            /\ Contains(r.probes, "video") <=> (videoOn /\ ~imageOk)
            /\ r.kind = "video" <=>
                 (videoOn /\ ~imageOk /\ in.backend.video_loads)
            /\ r.kind = "none" <=>
                 (~imageOk /\ ~(videoOn /\ in.backend.video_loads))

\* both backends were enabled and both would have loaded: the image source
\* was returned and video never probed
C5_Witness ==
    /\ create_out.called
    /\ with_video
    /\ create_in.attempt_image_loading /\ create_in.attempt_video_loading
    /\ create_in.backend.image_loads /\ create_in.backend.video_loads
    /\ create_out.r.kind = "image"
    /\ create_out.r.probes = <<"image">>

\* C6 (Spec): the flag is only ever set, never cleared; and once a check of
\* the loop condition has seen it set, Create and SendFrames are not called
\* again (so if it is set before the first check no source is created).
C6_NoStartAfterInterrupt ==
    [][/\ interrupt_received # 0 => interrupt_received' # 0
       /\ observed => /\ observed'
                      /\ createLog' = createLog
                      /\ sendLog' = sendLog
       /\ (pc = "loop" /\ imgarg <= nfiles /\ interrupt_received # 0)
            => (observed' /\ pc' = "finish")]_vars

\* the run ended with the flag seen set while files were left
C6_Witness ==
    /\ pc = "exit"
    /\ observed
    /\ Len(createLog) < nfiles
    /\ Len(createLog) >= 1

\* C7, as claimed (Spec): every DisplayOptions that main passes to Create
\* has width >= 1 and height >= 1.  (Stated for grids of at least 1x1, so
\* that it does not rest on a division by zero.)
C7_CreateGetsValidSize ==
    (pc \in {"create", "created", "send"} /\ grid_cols >= 1 /\ grid_rows >= 1) =>
        /\ display_opts.width >= 1
        /\ display_opts.height >= 1

\* C8, as claimed (Spec): the grid shape in force when main partitions the
\* canvas and creates sources has grid_cols >= 1 and grid_rows >= 1.
C8_GridAtLeastOne ==
    pc \in {"partition", "loop", "create", "created", "send"} =>
        /\ grid_cols >= 1
        /\ grid_rows >= 1

\* C9 (Spec): every SendFrames call gets the configured max_frames, and as
\* loop count 1 if max_frames is 1, the configured --loops value (or "not
\* set") otherwise, in whatever order the options came.
C9_SingleFrameSingleLoop ==
    \A j \in DOMAIN sendLog :
        /\ sendLog[j].max_frames = max_frames
        /\ max_frames = 1 => sendLog[j].loops = 1
        /\ max_frames # 1 => sendLog[j].loops = configured_loops

\* --frames=1 and --loops=-1 were given and a source was played with one loop
C9_Witness ==
    /\ Len(sendLog) >= 1
    /\ max_frames = 1
    /\ configured_loops = 0 - 1
    /\ sendLog[1].loops = 1

\* C10, as claimed (SpecCalc): with upscale disabled, the unscaled shortcut
\* is taken only when the image fits the box in both axes, for every
\* combination of fill_width and fill_height.
C10_ShortcutOnlyWhenFits ==
    (calc_out.called /\ ~calc_in.upscale /\ calc_out.r.shortcut) =>
        /\ calc_in.width >= calc_in.img_width
        /\ calc_in.height >= calc_in.img_height

\* C10, amended (SpecCalc): with upscale disabled the shortcut is taken
\* exactly when each axis is strictly smaller than the box or exempted by the
\* opposite fill flag (fill_height exempts the width, fill_width the height);
\* so with no fill flag an image larger than the box in some axis never takes
\* it; and with no fill flag an image that fits in both axes comes back at
\* native size with result false.
C10_ShortcutPerAxis ==
    (calc_out.called /\ ~calc_in.upscale) =>
        LET r == calc_out.r
            nofill == ~calc_in.fill_width /\ ~calc_in.fill_height
        IN  /\ r.shortcut <=>
                 /\ calc_in.fill_height \/ calc_in.width > calc_in.img_width
                 /\ calc_in.fill_width \/ calc_in.height > calc_in.img_height
            /\ r.shortcut => (/\ r.target_width = calc_in.img_width
                              /\ r.target_height = calc_in.img_height
                              /\ ~r.result)
            /\ (nofill /\ (calc_in.img_width > calc_in.width
                           \/ calc_in.img_height > calc_in.height))
                 => ~r.shortcut
            /\ (nofill /\ calc_in.width >= calc_in.img_width
                       /\ calc_in.height >= calc_in.img_height)
                 => (/\ r.target_width = calc_in.img_width
                     /\ r.target_height = calc_in.img_height
                     /\ ~r.result)

\* with fill_height alone and upscale off, an image wider than the box took
\* the shortcut
C10_Witness ==
    /\ calc_out.called
    /\ ~calc_in.upscale
    /\ calc_in.fill_height /\ ~calc_in.fill_width
    /\ calc_in.img_width > calc_in.width
    /\ calc_in.width >= 1
    /\ calc_out.r.shortcut

\* The reference computation of C11, in exact arithmetic.  The factor is the
\* rational num / den; RefRound is num / den rounded to the nearest integer,
\* ties away from zero, for num >= 0 and den > 0.
RefRound(num, den) == (2 * num + den) \div (2 * den)

\* is width_fraction (w / iw) larger than height_fraction (h / ih)
RefWidthLarger(in) == in.width * in.img_height > in.height * in.img_width

\* the factor as [num, den]: the larger fraction with both fill flags, the
\* height fraction with fill_height alone, the width fraction with fill_width
\* alone, the smaller fraction with neither
RefFactor(in) ==
    LET wf == [num |-> in.width, den |-> in.img_width]
        hf == [num |-> in.height, den |-> in.img_height]
    IN  IF in.fill_width /\ in.fill_height
        THEN (IF RefWidthLarger(in) THEN wf ELSE hf)
        ELSE IF in.fill_height THEN hf
        ELSE IF in.fill_width THEN wf
        ELSE (IF RefWidthLarger(in) THEN hf ELSE wf)

RefTarget(in) ==
    LET f == RefFactor(in)
    IN  [w |-> Max(1, RefRound(f.num * in.img_width, f.den)),
         h |-> Max(1, RefRound(f.num * in.img_height, f.den))]

\* C11, as claimed (SpecCalc): whenever CalcScaleToFitDisplay does not take
\* the shortcut, for native sizes >= 1 and constraints >= 1, target_width =
\* max(1, round(f * native_width)) and target_height = max(1, round(f *
\* native_height)) for the factor f of the fill mode, and the returned flag
\* is true if and only if the target differs from the native size.
C11_EqualsReference ==
    (/\ calc_out.called
     /\ ~calc_out.r.shortcut
     /\ calc_in.width >= 1 /\ calc_in.height >= 1) =>
        /\ calc_out.r.target_width = RefTarget(calc_in).w
        /\ calc_out.r.target_height = RefTarget(calc_in).h
        /\ calc_out.r.result <=>
             (calc_out.r.target_width # calc_in.img_width
              \/ calc_out.r.target_height # calc_in.img_height)

\* What does hold (SpecCalc): the flag is as claimed, and each target
\* dimension is within half a pixel of f * native, so it is the reference
\* value except where f * native lies exactly between two integers.
C11_NearestUpToTies ==
    (/\ calc_out.called
     /\ ~calc_out.r.shortcut
     /\ calc_in.width >= 1 /\ calc_in.height >= 1) =>
        LET f == RefFactor(calc_in)
            r == calc_out.r
            tieW == (2 * f.num * calc_in.img_width) % (2 * f.den) = f.den
            tieH == (2 * f.num * calc_in.img_height) % (2 * f.den) = f.den
        IN  /\ r.target_width = RefTarget(calc_in).w
               \/ (tieW /\ r.target_width = RefTarget(calc_in).w - 1)
            /\ r.target_height = RefTarget(calc_in).h
               \/ (tieH /\ r.target_height = RefTarget(calc_in).h - 1)
            /\ r.result <=> (r.target_width # calc_in.img_width
                             \/ r.target_height # calc_in.img_height)

=============================================================================
